---- MODULE Spec2Model ----
(***************************************************************************)
(* Model of pairs_trading.py: the pairwise cointegration screening engine  *)
(* (PairsAnalyzer.calculate_cointegration, PairsAnalyzer.analyze_pairs)    *)
(* and the part of main() that consumes its result.                        *)
(*                                                                         *)
(* Text (symbols, prompt input) is a sequence of one-character strings.    *)
(* p-values are integers in units of 1e-5, scores in units of 1e-3.        *)
(***************************************************************************)
EXTENDS Integers, Sequences, FiniteSets, TLC

VARIABLES
    pc,          \* control point of main() / analyze_pairs()
    config,      \* the Config object
    closes,      \* the aligned close-price matrix (DataFrame)
    pairs,       \* analyze_pairs: list(combinations(closes.columns, 2))
    submitted,   \* analyze_pairs: number of pairs already given to executor.submit
    job,         \* per work item: "unsubmitted" | "queued" | "running" | "finished"
    future,      \* per work item: what its Future holds once the job has finished
    collected,   \* work items already yielded by as_completed and handled
    results,     \* analyze_pairs: the results list
    top_pairs,   \* analyze_pairs: results[:top_n_pairs]
    all_pairs,   \* main: first component of the value analyze_pairs returned
    outcome,     \* how the run ended (the message main logs, or the exception)
    csv,         \* rows written to config.output_file; NoFile when never written
    printed,     \* what the last lookup command printed
    prev_runs,   \* RankedResults of earlier analyze_pairs calls on the same input
    markets,     \* main: the markets load_markets returned
    filtered,    \* main: the markets that passed the liquidity filter
    ohlcv_data,  \* main: the symbols whose OHLCV data was fetched, in fetch order
    fetched      \* main: number of filtered markets the fetch loop has handled

(* the state of the data acquisition *)
acquisition == <<markets, filtered, ohlcv_data, fetched>>

vars == <<pc, config, closes, pairs, submitted, job, future, collected,
          results, top_pairs, all_pairs, outcome, csv, printed, prev_runs,
          acquisition>>

-----------------------------------------------------------------------------
(* Bounds *)

MaxTopK == 2
MaxWorkers == 2

(* Program constants *)

min_data_points == 50
default_coint_threshold == 5000
default_top_n_pairs == 10
default_max_workers == 8

PValueOne == 10 ^ 5

(* The symbols the exchange can deliver as column labels, in column order;  *)
(* a base asset code is not always upper-case.                             *)
Symbols ==
    << <<"B","T","C","/","U","S","D","T">>,
       <<"E","T","H","/","U","S","D","T">>,
       <<"k","P","E","P","E","/","U","S","D","T">>  >>

-----------------------------------------------------------------------------
(* Input domains *)

Kinds == {"varying", "constant", "nonnumeric"}

RowCounts == {min_data_points - 1, min_data_points}

(* What statsmodels' coint can give for two series: a (score, pvalue) or an *)
(* exception.  mackinnonp clamps the p-value to 0.0 and to 1.0.            *)
CointFailed == [raised |-> TRUE]

CointValues ==
    { [raised |-> FALSE, score |-> -20000, pvalue |-> 0],
      [raised |-> FALSE, score |-> -3340,  pvalue |-> 4999],
      [raised |-> FALSE, score |-> 1000,   pvalue |-> PValueOne] }

CointOutcomes == CointValues \cup {CointFailed}

Thresholds == {default_coint_threshold, PValueOne}

(* the Configs a caller of PairsAnalyzer may construct *)
Configs ==
    [ coint_threshold : Thresholds,
      top_n_pairs     : 0..MaxTopK,
      max_workers     : 1..MaxWorkers,
      min_data_points : {min_data_points},
      enable_volume_filter        : {FALSE},
      enable_open_interest_filter : {FALSE} ]

(* Config(): every field at its default *)
DefaultConfig ==
    [ coint_threshold |-> default_coint_threshold,
      top_n_pairs     |-> default_top_n_pairs,
      max_workers     |-> default_max_workers,
      min_data_points |-> min_data_points,
      enable_volume_filter        |-> FALSE,
      enable_open_interest_filter |-> FALSE ]

IndexPairs(n) == { ij \in (1..n) \X (1..n) : ij[1] < ij[2] }

(* An aligned matrix: its column labels, its number of rows, what each column *)
(* holds, and what coint gives for each two of its columns.                  *)
MatricesOf(cols) ==
    { [columns |-> cols, nrows |-> m[1], kind |-> m[2], coint |-> m[3]] :
        m \in RowCounts \X [1..Len(cols) -> Kinds]
                        \X [IndexPairs(Len(cols)) -> CointOutcomes] }

(* the subsequences of a sequence: some elements dropped, the order kept *)
RECURSIVE SubSequences(_)
SubSequences(s) ==
    IF s = << >> THEN { << >> }
    ELSE LET rest == SubSequences(Tail(s))
         IN  rest \cup { << s[1] >> \o r : r \in rest }

Matrices == UNION { MatricesOf(cols) : cols \in SubSequences(Symbols) }

NoMatrix == [columns |-> << >>, nrows |-> 0, kind |-> << >>, coint |-> << >>]

NoFile == << [missing |-> TRUE] >>

-----------------------------------------------------------------------------
(* Helpers *)

Min(a, b) == IF a <= b THEN a ELSE b

(* closes.columns.get_loc: the position of a column label *)
ColumnIndex(m, sym) == CHOOSE i \in 1..Len(m.columns) : m.columns[i] = sym

(* closes[label]: the column as a Series *)
Column(m, sym) ==
    [name |-> sym, len |-> m.nrows, kind |-> m.kind[ColumnIndex(m, sym)],
     idx |-> ColumnIndex(m, sym)]

(* the pairs of combinations with the first element varying fastest *)
RECURSIVE combinations2Reversed(_)
combinations2Reversed(cols) ==
    IF Len(cols) < 2 THEN << >>
    ELSE combinations2Reversed(Tail(cols))
         \o [ j \in 1..(Len(cols) - 1) |-> << cols[1], cols[j + 1] >> ]

(* itertools.combinations(cols, 2): first element varies slowest *)
RECURSIVE combinations2(_)
combinations2(cols) ==
    IF Len(cols) < 2 THEN << >>
    ELSE [ j \in 1..(Len(cols) - 1) |-> << cols[1], cols[j + 1] >> ]
         \o combinations2(Tail(cols))

(* statsmodels.tsa.stattools.coint on two columns of the matrix *)
coint(m, series1, series2) == m.coint[<< series1.idx, series2.idx >>]

ResultNone == [kind |-> "None"]
ResultRaised == [kind |-> "raised"]
ResultDict(score, pvalue) == [kind |-> "dict", score |-> score, pvalue |-> pvalue]

(* PairsAnalyzer.calculate_cointegration: what the Future ends up holding *)
calculate_cointegration(cfg, m, series1, series2) ==
    IF series1.len < cfg.min_data_points \/ series2.len < cfg.min_data_points
    THEN ResultNone
    ELSE IF series1.kind = "nonnumeric" THEN ResultRaised
    ELSE IF series1.kind = "constant" THEN ResultNone
    ELSE IF series2.kind = "nonnumeric" THEN ResultRaised
    ELSE IF series2.kind = "constant" THEN ResultNone
    ELSE LET r == coint(m, series1, series2) IN
         IF r.raised THEN ResultNone ELSE ResultDict(r.score, r.pvalue)

(* the filter with <= in place of < *)
AcceptsInclusive(cfg, result) ==
    /\ result.kind = "dict"
    /\ result.pvalue <= cfg.coint_threshold

(* the filter of analyze_pairs: result and result['pvalue'] < coint_threshold *)
Accepts(cfg, result) ==
    /\ result.kind = "dict"
    /\ result.pvalue < cfg.coint_threshold

(* list.sort(key=lambda x: x[2]): stable, ascending *)
RECURSIVE InsertByKey(_, _)
InsertByKey(x, sorted) ==
    IF sorted = << >> THEN << x >>
    ELSE IF x[3] < sorted[Len(sorted)][3]
         THEN InsertByKey(x, SubSeq(sorted, 1, Len(sorted) - 1)) \o << sorted[Len(sorted)] >>
         ELSE sorted \o << x >>

(* the results left in collection order *)
SortByPValueOmitted(s) == s

RECURSIVE SortByPValue(_)
SortByPValue(s) ==
    IF s = << >> THEN << >>
    ELSE InsertByKey(s[Len(s)], SortByPValue(SubSeq(s, 1, Len(s) - 1)))

(* results[:top_n_pairs + 1] *)
SliceOneMore(s, k) == SubSeq(s, 1, Min(k + 1, Len(s)))

(* results[:top_n_pairs] for top_n_pairs >= 0 *)
Slice(s, k) == SubSeq(s, 1, Min(k, Len(s)))

-----------------------------------------------------------------------------
(* Text formatting and parsing *)

Digits == << "0", "1", "2", "3", "4", "5", "6", "7", "8", "9" >>

RECURSIVE NatText(_)
NatText(n) ==
    IF n < 10 THEN << Digits[n + 1] >>
    ELSE NatText(n \div 10) \o << Digits[(n % 10) + 1] >>

RECURSIVE PadLeft(_, _)
PadLeft(t, width) == IF Len(t) >= width THEN t ELSE PadLeft(<< "0" >> \o t, width)

Abs(n) == IF n < 0 THEN -n ELSE n

(* round n / d to the nearest integer, ties to even, for n >= 0 *)
RoundHalfEven(n, d) ==
    LET q == n \div d
        r == n % d
    IN  IF 2 * r > d \/ (2 * r = d /\ q % 2 = 1) THEN q + 1 ELSE q

(* format(x, ".<places>f") of the number units / unitsPerOne *)
FormatFixed(units, unitsPerOne, places) ==
    LET scale == 10 ^ places
        v == RoundHalfEven(Abs(units) * scale, unitsPerOne)
    IN  (IF units < 0 THEN << "-" >> ELSE << >>)
        \o NatText(v \div scale) \o << "." >> \o PadLeft(NatText(v % scale), places)

(* f"{pair[2]:.2f}" *)
FormatPValueTwoPlaces(p) == FormatFixed(p, PValueOne, 2)

(* f"{pair[2]:.4f}" *)
FormatPValue(p) == FormatFixed(p, PValueOne, 4)

(* f"{pair[3]:.2f}" *)
FormatScore(s) == FormatFixed(s, 1000, 2)

Lower == << "a","b","c","d","e","f","g","h","i","j","k","l","m",
            "n","o","p","q","r","s","t","u","v","w","x","y","z" >>
Upper == << "A","B","C","D","E","F","G","H","I","J","K","L","M",
            "N","O","P","Q","R","S","T","U","V","W","X","Y","Z" >>

(* str.upper *)
UpperChar(c) ==
    IF \E i \in 1..26 : Lower[i] = c
    THEN Upper[CHOOSE i \in 1..26 : Lower[i] = c]
    ELSE c

upper(t) == [ i \in 1..Len(t) |-> UpperChar(t[i]) ]

(* str.lower *)
LowerChar(c) ==
    IF \E i \in 1..26 : Upper[i] = c
    THEN Lower[CHOOSE i \in 1..26 : Upper[i] = c]
    ELSE c

lower(t) == [ i \in 1..Len(t) |-> LowerChar(t[i]) ]

(* str.strip *)
RECURSIVE strip(_)
strip(t) ==
    IF t = << >> THEN t
    ELSE IF t[1] = " " THEN strip(Tail(t))
    ELSE IF t[Len(t)] = " " THEN strip(SubSeq(t, 1, Len(t) - 1))
    ELSE t

(* str.split('/')[0] *)
RECURSIVE SplitRoot(_)
SplitRoot(t) ==
    IF t = << >> \/ t[1] = "/" THEN << >>
    ELSE << t[1] >> \o SplitRoot(Tail(t))

(* one line of the lookup listing *)
PairLine(pair) ==
    [a |-> pair[1], b |-> pair[2], pvalue |-> FormatPValue(pair[3]),
     score |-> FormatScore(pair[4])]

(* one record of the CSV *)
CsvRow(pair) ==
    [Pair |-> pair[1] \o << "-" >> \o pair[2],
     PValue |-> FormatPValue(pair[3]),
     Score |-> FormatScore(pair[4])]

(* what the user may type at the filter prompt *)
FilterInputs ==
    { << "v" >>, << "O","I" >>, << "b" >>, << " ","y" >>, << >>, << "n" >> }

LookupInputs ==
    { << "x" >>, << "l","i","s","t" >>, << "b","t","c" >>,
      << " ","E","T","H" >>, << "D","O","G","E" >>, << "k","P","E","P","E" >> }

-----------------------------------------------------------------------------
(* State machine *)

Init ==
    /\ pc = "align"
    /\ config \in Configs
    /\ closes = NoMatrix
    /\ pairs = << >>
    /\ submitted = 0
    /\ job = << >>
    /\ future = << >>
    /\ collected = {}
    /\ results = << >>
    /\ top_pairs = << >>
    /\ all_pairs = << >>
    /\ outcome = "running"
    /\ csv = NoFile
    /\ printed = << >>
    /\ prev_runs = << >>
    /\ markets = Symbols
    /\ filtered = Symbols
    /\ ohlcv_data = Symbols
    /\ fetched = Len(Symbols)

Jobs == 1..Len(pairs)

Running == { k \in Jobs : job[k] = "running" }
Queued == { k \in Jobs : job[k] = "queued" }

(* main, lines 255-257: the columns fetched, less those dropna drops *)
AlignData ==
    /\ pc = "align"
    /\ \E cols \in SubSequences(ohlcv_data) : \E m \in MatricesOf(cols) : closes' = m
    /\ pc' = "check_columns"
    /\ UNCHANGED <<config, pairs, submitted, job, future, collected, results,
                   top_pairs, all_pairs, outcome, csv, printed, prev_runs,
                   acquisition>>

(* main without the guard of lines 258-260 *)
CheckColumnsOmitted ==
    /\ pc = "check_columns"
    /\ pc' = "analyze"
    /\ UNCHANGED <<config, closes, pairs, submitted, job, future, collected,
                   results, top_pairs, all_pairs, outcome, csv, printed, prev_runs,
                   acquisition>>

(* main, lines 258-260 *)
CheckColumns ==
    /\ pc = "check_columns"
    /\ IF Len(closes.columns) < 2
       THEN /\ outcome' = "Insufficient data for pair analysis"
            /\ pc' = "exit"
       ELSE /\ outcome' = outcome
            /\ pc' = "analyze"
    /\ UNCHANGED <<config, closes, pairs, submitted, job, future, collected,
                   results, top_pairs, all_pairs, csv, printed, prev_runs,
                   acquisition>>

(* analyze_pairs, lines 164-166: the work list, the empty results, the pool *)
EnumeratePairs ==
    /\ pc = "analyze"
    /\ pairs' = combinations2(closes.columns)
    /\ results' = << >>
    /\ submitted' = 0
    /\ job' = [ k \in 1..Len(pairs') |-> "unsubmitted" ]
    /\ future' = [ k \in 1..Len(pairs') |-> ResultNone ]
    /\ collected' = {}
    /\ pc' = IF pairs' = << >> THEN "collect" ELSE "submit"
    /\ UNCHANGED <<config, closes, top_pairs, all_pairs, outcome, csv, printed,
                   prev_runs,
                   acquisition>>

(* analyze_pairs, lines 167-170: executor.submit of the next pair *)
Submit ==
    /\ pc = "submit"
    /\ submitted < Len(pairs)
    /\ submitted' = submitted + 1
    /\ job' = [job EXCEPT ![submitted + 1] = "queued"]
    /\ pc' = IF submitted + 1 = Len(pairs) THEN "collect" ELSE "submit"
    /\ UNCHANGED <<config, closes, pairs, future, collected, results, top_pairs,
                   all_pairs, outcome, csv, printed, prev_runs,
                   acquisition>>

(* a pool that starts a thread per work item, whatever max_workers is *)
WorkerStartUnbounded ==
    /\ pc \in {"submit", "collect", "unwind"}
    /\ Queued # {}
    /\ LET k == CHOOSE q \in Queued : \A o \in Queued : q <= o
       IN  job' = [job EXCEPT ![k] = "running"]
    /\ UNCHANGED <<pc, config, closes, pairs, submitted, future, collected,
                   results, top_pairs, all_pairs, outcome, csv, printed, prev_runs,
                   acquisition>>

(* ThreadPoolExecutor: a free worker takes the oldest queued work item *)
WorkerStart ==
    /\ pc \in {"submit", "collect", "unwind"}
    /\ Queued # {}
    /\ Cardinality(Running) < config.max_workers
    /\ LET k == CHOOSE q \in Queued : \A o \in Queued : q <= o
       IN  job' = [job EXCEPT ![k] = "running"]
    /\ UNCHANGED <<pc, config, closes, pairs, submitted, future, collected,
                   results, top_pairs, all_pairs, outcome, csv, printed, prev_runs,
                   acquisition>>

(* a job that overwrites its first column in the shared matrix *)
WorkerFinishWritingMatrix(k) ==
    /\ pc \in {"submit", "collect", "unwind"}
    /\ job[k] = "running"
    /\ job' = [job EXCEPT ![k] = "finished"]
    /\ future' = [future EXCEPT ![k] =
                     calculate_cointegration(config, closes,
                                             Column(closes, pairs[k][1]),
                                             Column(closes, pairs[k][2]))]
    /\ closes' = [closes EXCEPT !.kind[ColumnIndex(closes, pairs[k][1])] = "constant"]
    /\ UNCHANGED <<pc, config, pairs, submitted, collected, results,
                   top_pairs, all_pairs, outcome, csv, printed, prev_runs,
                   acquisition>>

(* a worker runs calculate_cointegration (lines 149-161) and sets the Future *)
WorkerFinish(k) ==
    /\ pc \in {"submit", "collect", "unwind"}
    /\ job[k] = "running"
    /\ job' = [job EXCEPT ![k] = "finished"]
    /\ future' = [future EXCEPT ![k] =
                     calculate_cointegration(config, closes,
                                             Column(closes, pairs[k][1]),
                                             Column(closes, pairs[k][2]))]
    /\ UNCHANGED <<pc, config, closes, pairs, submitted, collected, results,
                   top_pairs, all_pairs, outcome, csv, printed, prev_runs,
                   acquisition>>

(* analyze_pairs, lines 171-175: as_completed yields a finished future *)
Collect(k) ==
    /\ pc = "collect"
    /\ job[k] = "finished"
    /\ k \notin collected
    /\ collected' = collected \cup {k}
    /\ IF future[k].kind = "raised"
       THEN /\ pc' = "unwind"
            /\ results' = results
       ELSE /\ pc' = pc
            /\ results' = IF Accepts(config, future[k])
                          THEN Append(results, << pairs[k][1], pairs[k][2],
                                                  future[k].pvalue, future[k].score >>)
                          ELSE results
    /\ UNCHANGED <<config, closes, pairs, submitted, job, future, top_pairs,
                   all_pairs, outcome, csv, printed, prev_runs,
                   acquisition>>

(* sorting and returning without waiting for the futures still outstanding *)
SortAndReturnEarly ==
    /\ pc = "collect"
    /\ results' = SortByPValue(results)
    /\ top_pairs' = Slice(results', config.top_n_pairs)
    /\ all_pairs' = results'
    /\ pc' = "returned"
    /\ UNCHANGED <<config, closes, pairs, submitted, job, future, collected,
                   outcome, csv, printed, prev_runs,
                   acquisition>>

(* analyze_pairs, lines 176-178, and the assignment of main, line 264 *)
SortAndReturn ==
    /\ pc = "collect"
    /\ collected = Jobs
    /\ results' = SortByPValue(results)
    /\ top_pairs' = Slice(results', config.top_n_pairs)
    /\ all_pairs' = results'
    /\ pc' = "returned"
    /\ UNCHANGED <<config, closes, pairs, submitted, job, future, collected,
                   outcome, csv, printed, prev_runs,
                   acquisition>>

(* future.result() raised at line 173: the with block waits for the pool,  *)
(* then the exception leaves analyze_pairs and main                        *)
Unwind ==
    /\ pc = "unwind"
    /\ \A k \in Jobs : job[k] = "finished"
    /\ outcome' = "exception"
    /\ pc' = "exit"
    /\ UNCHANGED <<config, closes, pairs, submitted, job, future, collected,
                   results, top_pairs, all_pairs, csv, printed, prev_runs,
                   acquisition>>

(* main, lines 265-267 *)
CheckTopPairs ==
    /\ pc = "returned"
    /\ IF top_pairs = << >>
       THEN /\ outcome' = "No cointegrated pairs found"
            /\ pc' = "exit"
       ELSE /\ outcome' = outcome
            /\ pc' = "save"
    /\ UNCHANGED <<config, closes, pairs, submitted, job, future, collected,
                   results, top_pairs, all_pairs, csv, printed, prev_runs,
                   acquisition>>

(* main, lines 270-278 *)
SaveOutput ==
    /\ pc = "save"
    /\ csv' = [ i \in 1..Len(top_pairs) |-> CsvRow(top_pairs[i]) ]
    /\ outcome' = "Saved"
    /\ pc' = "lookup"
    /\ UNCHANGED <<config, closes, pairs, submitted, job, future, collected,
                   results, top_pairs, all_pairs, printed, prev_runs,
                   acquisition>>

(* a lookup loop that keeps only the pairs it has just shown *)
LookupNarrowing ==
    /\ pc = "lookup"
    /\ \E raw \in LookupInputs :
         LET selected_input == upper(strip(raw))
             matching_pairs ==
                 SelectSeq(all_pairs,
                           LAMBDA pair : \/ SplitRoot(pair[1]) = selected_input
                                         \/ SplitRoot(pair[2]) = selected_input)
         IN  IF selected_input = << "X" >>
             THEN /\ printed' = << [exit |-> TRUE] >>
                  /\ all_pairs' = all_pairs
                  /\ pc' = "exit"
             ELSE IF selected_input = << "L","I","S","T" >>
             THEN /\ printed' = << [header |-> "all"] >>
                                \o [ i \in 1..Len(all_pairs) |-> PairLine(all_pairs[i]) ]
                  /\ all_pairs' = all_pairs
                  /\ pc' = pc
             ELSE IF matching_pairs # << >>
             THEN /\ printed' = << [header |-> "containing", asset |-> selected_input] >>
                                \o [ i \in 1..Len(matching_pairs) |-> PairLine(matching_pairs[i]) ]
                  /\ all_pairs' = matching_pairs
                  /\ pc' = pc
             ELSE /\ printed' = << [header |-> "none", asset |-> selected_input] >>
                  /\ all_pairs' = all_pairs
                  /\ pc' = pc
    /\ UNCHANGED <<config, closes, pairs, submitted, job, future, collected,
                   results, top_pairs, outcome, csv, prev_runs,
                   acquisition>>

(* main, lines 281-304: one pass of the lookup loop *)
Lookup ==
    /\ pc = "lookup"
    /\ \E raw \in LookupInputs :
         LET selected_input == upper(strip(raw))
             matching_pairs ==
                 SelectSeq(all_pairs,
                           LAMBDA pair : \/ SplitRoot(pair[1]) = selected_input
                                         \/ SplitRoot(pair[2]) = selected_input)
         IN  IF selected_input = << "X" >>
             THEN /\ printed' = << [exit |-> TRUE] >>
                  /\ pc' = "exit"
             ELSE IF selected_input = << "L","I","S","T" >>
             THEN /\ printed' = << [header |-> "all"] >>
                                \o [ i \in 1..Len(all_pairs) |-> PairLine(all_pairs[i]) ]
                  /\ pc' = pc
             ELSE IF matching_pairs # << >>
             THEN /\ printed' = << [header |-> "containing", asset |-> selected_input] >>
                                \o [ i \in 1..Len(matching_pairs) |-> PairLine(matching_pairs[i]) ]
                  /\ pc' = pc
             ELSE /\ printed' = << [header |-> "none", asset |-> selected_input] >>
                  /\ pc' = pc
    /\ UNCHANGED <<config, closes, pairs, submitted, job, future, collected,
                   results, top_pairs, all_pairs, outcome, csv, prev_runs,
                   acquisition>>

Next ==
    \/ AlignData
    \/ CheckColumns
    \/ EnumeratePairs
    \/ Submit
    \/ WorkerStart
    \/ \E k \in Jobs : WorkerFinish(k)
    \/ \E k \in Jobs : Collect(k)
    \/ SortAndReturn
    \/ Unwind
    \/ CheckTopPairs
    \/ SaveOutput
    \/ Lookup

Spec == Init /\ [][Next]_vars

(* A caller that screens the same matrix with the same Config once more *)
RunAgain ==
    /\ pc = "returned"
    /\ prev_runs = << >>
    /\ prev_runs' = << results >>
    /\ pc' = "analyze"
    /\ UNCHANGED <<config, closes, pairs, submitted, job, future, collected,
                   results, top_pairs, all_pairs, outcome, csv, printed,
                   acquisition>>

NextRepeat == Next \/ RunAgain

SpecRepeat == Init /\ [][NextRepeat]_vars

-----------------------------------------------------------------------------
(* The whole run of main(): Config(), the filter prompt, the data acquisition, *)
(* then the screening and the lookup above.                                    *)

InitRun ==
    /\ pc = "start"
    /\ config = DefaultConfig
    /\ closes = NoMatrix
    /\ pairs = << >>
    /\ submitted = 0
    /\ job = << >>
    /\ future = << >>
    /\ collected = {}
    /\ results = << >>
    /\ top_pairs = << >>
    /\ all_pairs = << >>
    /\ outcome = "running"
    /\ csv = NoFile
    /\ printed = << >>
    /\ prev_runs = << >>
    /\ markets = << >>
    /\ filtered = << >>
    /\ ohlcv_data = << >>
    /\ fetched = 0

(* the filter prompt also overwriting the significance threshold *)
FilterChoiceResettingThreshold ==
    /\ pc = "start"
    /\ \E raw \in FilterInputs :
         LET filter_choice == lower(strip(raw))
         IN  config' = [config EXCEPT
                 !.enable_volume_filter = filter_choice \in { << "v" >>, << "b" >>, << "y" >> },
                 !.enable_open_interest_filter =
                     filter_choice \in { << "o","i" >>, << "b" >>, << "y" >> },
                 !.coint_threshold = PValueOne]
    /\ pc' = "load_markets"
    /\ UNCHANGED <<closes, pairs, submitted, job, future, collected, results,
                   top_pairs, all_pairs, outcome, csv, printed, prev_runs,
                   acquisition>>

(* main, lines 187-203: the filter prompt sets the two flags of the Config *)
FilterChoice ==
    /\ pc = "start"
    /\ \E raw \in FilterInputs :
         LET filter_choice == lower(strip(raw))
         IN  config' = [config EXCEPT
                 !.enable_volume_filter = filter_choice \in { << "v" >>, << "b" >>, << "y" >> },
                 !.enable_open_interest_filter =
                     filter_choice \in { << "o","i" >>, << "b" >>, << "y" >> }]
    /\ pc' = "load_markets"
    /\ UNCHANGED <<closes, pairs, submitted, job, future, collected, results,
                   top_pairs, all_pairs, outcome, csv, printed, prev_runs,
                   acquisition>>

(* main, lines 209-213, and MarketDataFetcher.load_markets, lines 123-140:  *)
(* the active linear USDT markets with a positive open interest             *)
LoadMarkets ==
    /\ pc = "load_markets"
    /\ \E ms \in SubSequences(Symbols) : markets' = ms
    /\ IF markets' = << >>
       THEN outcome' = "No markets found" /\ pc' = "exit"
       ELSE outcome' = outcome /\ pc' = "filter"
    /\ UNCHANGED <<config, closes, pairs, submitted, job, future, collected,
                   results, top_pairs, all_pairs, csv, printed, prev_runs,
                   filtered, ohlcv_data, fetched>>

(* main, lines 216-240: the liquidity filter, whatever volumes and open     *)
(* interests the exchange reports                                           *)
LiquidityFilter ==
    /\ pc = "filter"
    /\ IF config.enable_volume_filter \/ config.enable_open_interest_filter
       THEN \E f \in SubSequences(markets) : filtered' = f
       ELSE filtered' = markets
    /\ IF filtered' = << >>
       THEN outcome' = "No markets passed liquidity filter" /\ pc' = "exit"
       ELSE outcome' = outcome /\ pc' = "fetch"
    /\ UNCHANGED <<config, closes, pairs, submitted, job, future, collected,
                   results, top_pairs, all_pairs, csv, printed, prev_runs,
                   markets, ohlcv_data, fetched>>

(* main, lines 245-249: one pass of the fetch loop; fetch_ohlcv (lines      *)
(* 67-87) gives a frame or None                                             *)
FetchOhlcv ==
    /\ pc = "fetch"
    /\ fetched < Len(filtered)
    /\ \E df_is_none \in BOOLEAN :
         ohlcv_data' = IF df_is_none THEN ohlcv_data
                       ELSE Append(ohlcv_data, filtered[fetched + 1])
    /\ fetched' = fetched + 1
    /\ UNCHANGED <<pc, config, closes, pairs, submitted, job, future, collected,
                   results, top_pairs, all_pairs, outcome, csv, printed, prev_runs,
                   markets, filtered>>

(* leaving the fetch loop whatever is left to fetch *)
FetchLoopEndEarly ==
    /\ pc = "fetch"
    /\ IF ohlcv_data = << >>
       THEN outcome' = "No OHLCV data fetched" /\ pc' = "exit"
       ELSE outcome' = outcome /\ pc' = "align"
    /\ UNCHANGED <<config, closes, pairs, submitted, job, future, collected,
                   results, top_pairs, all_pairs, csv, printed, prev_runs,
                   acquisition>>

(* main, lines 245 and 250-252: the fetch loop is exhausted *)
FetchLoopEnd ==
    /\ pc = "fetch"
    /\ fetched = Len(filtered)
    /\ IF ohlcv_data = << >>
       THEN outcome' = "No OHLCV data fetched" /\ pc' = "exit"
       ELSE outcome' = outcome /\ pc' = "align"
    /\ UNCHANGED <<config, closes, pairs, submitted, job, future, collected,
                   results, top_pairs, all_pairs, csv, printed, prev_runs,
                   acquisition>>

NextRun ==
    \/ FilterChoice
    \/ LoadMarkets
    \/ LiquidityFilter
    \/ FetchOhlcv
    \/ FetchLoopEnd
    \/ Next

SpecRun == InitRun /\ [][NextRun]_vars

TypeOK ==
    /\ pc \in {"align", "check_columns", "analyze", "submit", "collect", "unwind",
               "returned", "save", "lookup", "exit"}
    /\ config \in Configs
    /\ submitted \in 0..Len(pairs)
    /\ collected \subseteq Jobs

-----------------------------------------------------------------------------
(* Properties *)

(* position of the pair (a, b) in the work list, i.e. in enumeration order *)
EnumPos(a, b) == CHOOSE k \in Jobs : pairs[k] = << a, b >>

(* the jobs whose pair is an element of the sequence s of result tuples *)
JobsIn(s) == { EnumPos(s[i][1], s[i][2]) : i \in 1..Len(s) }

(* C1: the RankedResults analyze_pairs returns is sorted non-decreasing by
   p-value, whatever the matrix, the threshold and the completion order. *)
C1_SortedByPValue ==
    pc = "returned" =>
        \A i, j \in 1..Len(results) : i < j => results[i][3] <= results[j][3]

C1_Witness ==
    /\ pc = "returned"
    /\ Len(results) >= 2
    /\ results[1][3] < results[Len(results)][3]

(* C2: of two pairs of RankedResults with equal p-values, the one enumerated
   earlier comes first, whatever order the jobs completed in. *)
C2_TiesInEnumerationOrder ==
    pc = "returned" =>
        \A i, j \in 1..Len(results) :
            (i < j /\ results[i][3] = results[j][3])
                => EnumPos(results[i][1], results[i][2]) < EnumPos(results[j][1], results[j][2])

(* C3: a second run of analyze_pairs on the same matrix and Config returns the
   same RankedResults sequence as the first, whatever the completion orders. *)
C3_SameResultsOnRepeat ==
    (pc = "returned" /\ prev_runs # << >>) => results = prev_runs[1]

(* C4: TopPairs is exactly the first min(top_n_pairs, len(RankedResults))
   elements of RankedResults, in the same order. *)
C4_TopPairsIsPrefix ==
    pc = "returned" =>
        /\ Len(top_pairs) = Min(config.top_n_pairs, Len(results))
        /\ \A i \in 1..Len(top_pairs) : top_pairs[i] = results[i]

C4_Witness ==
    /\ pc = "returned"
    /\ 0 < config.top_n_pairs
    /\ config.top_n_pairs < Len(results)

(* C5: a pair is in RankedResults exactly when its test returned a result whose
   p-value is strictly below the threshold; during collection the list holds
   exactly the qualifying pairs collected so far, each once, with the p-value
   and score its test returned. *)
C5_ExactlyTheQualifyingPairs ==
    pc \in {"collect", "returned"} =>
        /\ JobsIn(results) =
              { k \in collected : /\ future[k].kind = "dict"
                                  /\ future[k].pvalue < config.coint_threshold }
        /\ Len(results) = Cardinality(JobsIn(results))
        /\ \A i \in 1..Len(results) :
              LET k == EnumPos(results[i][1], results[i][2])
              IN  /\ results[i][3] = future[k].pvalue
                  /\ results[i][4] = future[k].score
        /\ pc = "returned" => collected = Jobs

C5_Witness ==
    /\ pc = "returned"
    /\ results # << >>
    /\ \E k \in Jobs : future[k].kind = "None"
    /\ \E k \in Jobs : future[k].kind = "dict" /\ future[k].pvalue >= config.coint_threshold

(* the pairs of the matrix whose columns pass the eligibility preconditions
   (length, variance), read off the matrix *)
EligiblePairs ==
    { ij \in IndexPairs(Len(closes.columns)) :
        /\ closes.nrows >= config.min_data_points
        /\ closes.kind[ij[1]] # "constant"
        /\ closes.kind[ij[2]] # "constant" }

(* the pairs whose two columns are numeric and for which coint returns a
   (score, pvalue), read off the matrix *)
TestedPairs ==
    { ij \in EligiblePairs :
        /\ closes.kind[ij[1]] = "varying"
        /\ closes.kind[ij[2]] = "varying"
        /\ ~closes.coint[ij].raised }

ResultIndexPairs ==
    { << ColumnIndex(closes, results[i][1]), ColumnIndex(closes, results[i][2]) >> :
        i \in 1..Len(results) }

(* C6 as stated: with threshold = 1.0 every pair whose test ran successfully
   is in RankedResults. *)
C6_AcceptsEveryTestedPair ==
    (pc = "returned" /\ config.coint_threshold = PValueOne) =>
        ResultIndexPairs = TestedPairs

(* C6 as amended: with threshold = 1.0 the RankedResults returned holds exactly
   the pairs whose test returned a result with a p-value strictly below 1.0. *)
C6_AcceptsTestedPairsBelowOne ==
    (pc = "returned" /\ config.coint_threshold = PValueOne) =>
        /\ ResultIndexPairs = { ij \in TestedPairs : closes.coint[ij].pvalue < PValueOne }
        /\ Len(results) = Cardinality(ResultIndexPairs)

C6_Witness ==
    /\ pc = "returned"
    /\ config.coint_threshold = PValueOne
    /\ results # << >>
    /\ \E ij \in TestedPairs : closes.coint[ij].pvalue = PValueOne

ConstantColumns ==
    { closes.columns[i] : i \in { c \in 1..Len(closes.columns) : closes.kind[c] = "constant" } }

(* C7: for a constant column the tester returns nothing for every pair that
   contains it, and its
   symbol is no leg of any PairResult of RankedResults or TopPairs. *)
C7_ConstantColumnExcluded ==
    /\ \A k \in Jobs :
          (job[k] = "finished" /\ (pairs[k][1] \in ConstantColumns \/ pairs[k][2] \in ConstantColumns))
              => future[k].kind = "None"
    /\ \A i \in 1..Len(results) :
          results[i][1] \notin ConstantColumns /\ results[i][2] \notin ConstantColumns
    /\ \A i \in 1..Len(top_pairs) :
          top_pairs[i][1] \notin ConstantColumns /\ top_pairs[i][2] \notin ConstantColumns

(* C8: a matrix with fewer than 2 columns ends the run with the insufficient
   columns outcome before any pairwise job is scheduled, with no results and no
   output file. *)
C8_InsufficientColumns ==
    (Len(closes.columns) < 2 /\ pc \notin {"align", "check_columns"}) =>
        /\ pc = "exit"
        /\ outcome = "Insufficient data for pair analysis"
        /\ pairs = << >> /\ submitted = 0 /\ job = << >>
        /\ results = << >> /\ top_pairs = << >> /\ all_pairs = << >>
        /\ csv = NoFile /\ printed = << >>

C8_Witness ==
    /\ Len(closes.columns) = 1
    /\ pc = "exit"
    /\ outcome = "Insufficient data for pair analysis"

(* no pair of the matrix has a test result with a p-value below the threshold *)
NoPairPasses ==
    \A ij \in TestedPairs : ~(closes.coint[ij].pvalue < config.coint_threshold)

(* C9: when no pair passes the threshold the engine completes normally with an
   empty RankedResults, and the run ends with the "no cointegrated pairs found"
   signal, no results file and no lookup. *)
C9_NoPairsIsReported ==
    (pc = "exit" /\ Len(closes.columns) >= 2 /\ NoPairPasses) =>
        /\ outcome = "No cointegrated pairs found"
        /\ all_pairs = << >>
        /\ csv = NoFile
        /\ printed = << >>

(* C10: an exception raised anywhere inside one pairwise job is caught for that
   job and counts as no result: no Future holds an exception and analyze_pairs
   never raises. *)
C10_JobFailureIsLocal ==
    /\ \A k \in Jobs : job[k] = "finished" => future[k].kind \in {"None", "dict"}
    /\ pc # "unwind"
    /\ outcome # "exception"

-----------------------------------------------------------------------------
(* Properties of the lookup loop *)

(* the lines under the header of what the last lookup printed *)
PrintedLines == Tail(printed)

(* the last command was a symbol lookup; printed[1].asset is the asset shown *)
SymbolLookupDone ==
    /\ pc = "lookup"
    /\ printed # << >>
    /\ "header" \in DOMAIN printed[1]
    /\ printed[1].header \in {"containing", "none"}

(* the symbol is root, then "/", then the quote currency *)
HasRoot(sym, root) ==
    /\ Len(sym) > Len(root)
    /\ SubSeq(sym, 1, Len(root)) = root
    /\ sym[Len(root) + 1] = "/"
    /\ \A i \in 1..Len(root) : root[i] # "/"

(* the same text up to letter case *)
SameIgnoringCase(s, t) ==
    /\ Len(s) = Len(t)
    /\ \A i \in 1..Len(s) :
          \/ s[i] = t[i]
          \/ \E c \in 1..26 : {s[i], t[i]} = {Lower[c], Upper[c]}

(* a leg of all_pairs[i] has the root, letter case apart *)
LegHasRoot(i, root) ==
    \E leg \in 1..2 : \E r \in { SubSeq(all_pairs[i][leg], 1, n) : n \in 0..Len(all_pairs[i][leg]) } :
        HasRoot(all_pairs[i][leg], r) /\ SameIgnoringCase(r, root)

MatchingIndexes(root) == { i \in 1..Len(all_pairs) : LegHasRoot(i, root) }

(* the j-th smallest element of a set of indexes *)
NthOf(S, j) == CHOOSE i \in S : Cardinality({ m \in S : m <= i }) = j

(* C11: a symbol lookup shows exactly the subsequence of RankedResults (the
   full list) whose first or second leg has the root entered, in the order of
   RankedResults: no matching pair omitted, no other pair included. *)
C11_LookupIsTheMatchingSubsequence ==
    SymbolLookupDone =>
        LET M == MatchingIndexes(printed[1].asset)
        IN  /\ Len(PrintedLines) = Cardinality(M)
            /\ \A j \in 1..Len(PrintedLines) :
                  /\ PrintedLines[j].a = all_pairs[NthOf(M, j)][1]
                  /\ PrintedLines[j].b = all_pairs[NthOf(M, j)][2]

(* C12: the lookup ignores letter case on both sides: every pair with a leg
   whose root equals the query up to case is shown, also when the stored
   symbol is not upper-case. *)
C12_LookupIgnoresCase ==
    SymbolLookupDone =>
        \A i \in 1..Len(all_pairs) :
            (\E leg \in 1..2 :
                SameIgnoringCase(SplitRoot(all_pairs[i][leg]), printed[1].asset))
            => \E j \in 1..Len(PrintedLines) :
                  /\ PrintedLines[j].a = all_pairs[i][1]
                  /\ PrintedLines[j].b = all_pairs[i][2]

(* what C11 and C12 say where every stored root is upper-case *)
LookupOnUpperCaseRoots ==
    (SymbolLookupDone /\ \A i \in 1..Len(all_pairs) : \A leg \in 1..2 :
         SplitRoot(all_pairs[i][leg]) = upper(SplitRoot(all_pairs[i][leg])))
    => C11_LookupIsTheMatchingSubsequence /\ C12_LookupIgnoresCase

-----------------------------------------------------------------------------
(* Properties of the output formats *)

IsDigit(c) == \E d \in 1..10 : Digits[d] = c

DigitValue(c) == (CHOOSE d \in 1..10 : Digits[d] = c) - 1

(* the text without its sign *)
Unsigned(text) == IF text # << >> /\ text[1] = "-" THEN Tail(text) ELSE text

(* the text is [-]digits.digits with exactly `places` digits after the point *)
IsFixedPoint(text, places) ==
    LET u == Unsigned(text)
        point == Len(u) - places
    IN  /\ point >= 2
        /\ u[point] = "."
        /\ \A i \in 1..Len(u) : i # point => IsDigit(u[i])

(* the number the text denotes, times 10^places *)
RECURSIVE DigitsValue(_)
DigitsValue(u) ==
    IF u = << >> THEN 0
    ELSE IF u[Len(u)] = "." THEN DigitsValue(SubSeq(u, 1, Len(u) - 1))
    ELSE 10 * DigitsValue(SubSeq(u, 1, Len(u) - 1)) + DigitValue(u[Len(u)])

ScaledValue(text) ==
    IF text # << >> /\ text[1] = "-" THEN 0 - DigitsValue(Tail(text)) ELSE DigitsValue(text)

(* the text shows the p-value (units of 1e-5) rounded to 4 decimal places *)
ShowsPValue(text, pvalue) ==
    /\ IsFixedPoint(text, 4)
    /\ Abs(10 * ScaledValue(text) - pvalue) <= 5

(* the text shows the score (units of 1e-3) rounded to 2 decimal places *)
ShowsScore(text, score) ==
    /\ IsFixedPoint(text, 2)
    /\ Abs(10 * ScaledValue(text) - score) <= 5

(* C13: the CSV holds one record per TopPairs element, in TopPairs order, with
   Pair = "<symbolA>-<symbolB>", the p-value to 4 decimal places and the
   statistic to 2; the lines of the lookup use the same formatting. *)
C13_OutputFormat ==
    /\ csv # NoFile =>
          /\ Len(csv) = Len(top_pairs)
          /\ \A i \in 1..Len(csv) :
                /\ csv[i].Pair = top_pairs[i][1] \o << "-" >> \o top_pairs[i][2]
                /\ ShowsPValue(csv[i].PValue, top_pairs[i][3])
                /\ ShowsScore(csv[i].Score, top_pairs[i][4])
    /\ (pc = "lookup" /\ printed # << >>) =>
          \A j \in 1..Len(PrintedLines) :
              \E i \in 1..Len(all_pairs) :
                  /\ PrintedLines[j].a = all_pairs[i][1]
                  /\ PrintedLines[j].b = all_pairs[i][2]
                  /\ ShowsPValue(PrintedLines[j].pvalue, all_pairs[i][3])
                  /\ ShowsScore(PrintedLines[j].score, all_pairs[i][4])

C13_Witness ==
    /\ pc = "lookup"
    /\ Len(csv) = 2
    /\ \E i \in 1..2 : top_pairs[i][3] = 4999 /\ csv[i].PValue = << "0", ".", "0", "5", "0", "0" >>
    /\ \E i \in 1..2 : csv[i].Score = << "-", "2", "0", ".", "0", "0" >>
    /\ Len(printed) >= 2

-----------------------------------------------------------------------------
(* Properties of the worker pool *)

(* C14: the sort and the TopPairs slice happen only once every submitted job
   has completed and its result has been collected; RankedResults is never
   sorted or returned while a job is pending or uncollected. *)
C14_SortAfterBarrier ==
    pc \in {"returned", "save", "lookup"} =>
        /\ submitted = Len(pairs)
        /\ \A k \in Jobs : job[k] = "finished" /\ k \in collected
        /\ Len(all_pairs) <= Cardinality(collected)

C14_Witness ==
    /\ pc = "returned"
    /\ Len(pairs) = 3
    /\ Cardinality(collected) = 3
    /\ Len(results) = 3

(* C15: the work list holds each of the C(n,2) unordered column pairs exactly
   once, in column order; so every PairResult has symbolA # symbolB with
   symbolA before symbolB in column order, and no unordered pair occurs twice
   in RankedResults. *)
C15_EachPairOnceInColumnOrder ==
    pc \in {"submit", "collect", "unwind", "returned", "save", "lookup"} =>
        LET n == Len(closes.columns)
            At(k) == << ColumnIndex(closes, pairs[k][1]), ColumnIndex(closes, pairs[k][2]) >>
        IN  /\ 2 * Len(pairs) = n * (n - 1)
            /\ \A k \in Jobs : At(k)[1] < At(k)[2]
            /\ \A k, l \in Jobs :
                  k < l => \/ At(k)[1] < At(l)[1]
                           \/ (At(k)[1] = At(l)[1] /\ At(k)[2] < At(l)[2])
            /\ \A i \in 1..Len(results) :
                  /\ results[i][1] # results[i][2]
                  /\ ColumnIndex(closes, results[i][1]) < ColumnIndex(closes, results[i][2])
            /\ \A i, j \in 1..Len(results) :
                  i # j => {results[i][1], results[i][2]} # {results[j][1], results[j][2]}

C15_Witness ==
    /\ pc = "returned"
    /\ Len(pairs) = 3
    /\ Len(results) = 3
    /\ results[1] # << pairs[1][1], pairs[1][2], results[1][3], results[1][4] >>

(* C19: the number of pairwise jobs executing at the same time never exceeds
   max_workers, however many pairs the work list holds. *)
C19_AtMostMaxWorkersRunning ==
    Cardinality(Running) <= config.max_workers

C19_Witness ==
    /\ Cardinality(Running) = config.max_workers
    /\ Queued # {}
    /\ Len(pairs) > config.max_workers

-----------------------------------------------------------------------------
(* Frame properties *)

(* what 'list' last printed is every element of the list, in its order *)
ListShowsAll ==
    (pc = "lookup" /\ printed # << >> /\ printed[1] = [header |-> "all"]) =>
        /\ Len(PrintedLines) = Len(results)
        /\ \A i \in 1..Len(results) :
              /\ PrintedLines[i].a = results[i][1]
              /\ PrintedLines[i].b = results[i][2]
              /\ ShowsPValue(PrintedLines[i].pvalue, results[i][3])
              /\ ShowsScore(PrintedLines[i].score, results[i][4])

(* a step of the lookup loop leaves the lists and the file as they are *)
LookupKeepsResults ==
    pc = "lookup" =>
        (all_pairs' = all_pairs /\ results' = results /\ top_pairs' = top_pairs /\ csv' = csv)

(* C17: the query index is read-only: no lookup command changes
   RankedResults (or TopPairs), and 'list' yields every element of
   RankedResults in the same order. *)
C17_LookupIsReadOnly ==
    /\ [](ListShowsAll /\ (pc = "lookup" => all_pairs = results))
    /\ [][LookupKeepsResults]_vars

C17_Witness ==
    /\ pc = "lookup"
    /\ Len(all_pairs) >= 2
    /\ printed # << >>
    /\ printed[1] = [header |-> "all"]

(* what the test of the columns i < j gives, read off those two columns only *)
OutcomeOfColumns(i, j) ==
    IF closes.nrows < config.min_data_points THEN "None"
    ELSE IF closes.kind[i] = "nonnumeric" THEN "raised"
    ELSE IF closes.kind[i] = "constant" THEN "None"
    ELSE IF closes.kind[j] = "nonnumeric" THEN "raised"
    ELSE IF closes.kind[j] = "constant" THEN "None"
    ELSE IF closes.coint[<< i, j >>].raised THEN "None"
    ELSE "dict"

(* every finished job holds what its own two columns determine *)
JobsDependOnOwnColumns ==
    \A k \in Jobs :
        job[k] = "finished" =>
            LET i == ColumnIndex(closes, pairs[k][1])
                j == ColumnIndex(closes, pairs[k][2])
            IN  /\ future[k].kind = OutcomeOfColumns(i, j)
                /\ future[k].kind = "dict" =>
                      /\ future[k].pvalue = closes.coint[<< i, j >>].pvalue
                      /\ future[k].score = closes.coint[<< i, j >>].score

(* a step taken while the pool is at work leaves the matrix, the Config, the
   work list and every finished job's result as they are *)
ScreeningKeepsSharedState ==
    pc \in {"submit", "collect", "unwind"} =>
        /\ closes' = closes
        /\ config' = config
        /\ pairs' = pairs
        /\ \A k \in Jobs : job[k] = "finished" => future'[k] = future[k]

(* C18: no pairwise job writes to the shared matrix or to state shared with
   another job: the matrix (and the Config) is the same before and after
   screening, a finished job's result is never changed by another job, and it
   is what the job's own two columns determine. *)
C18_JobsShareNothing ==
    /\ []JobsDependOnOwnColumns
    /\ [][ScreeningKeepsSharedState]_vars

C18_Witness ==
    /\ pc = "returned"
    /\ Len(pairs) = 3
    /\ \E k \in Jobs : future[k].kind = "dict"
    /\ \E k \in Jobs : future[k].kind = "None"

-----------------------------------------------------------------------------
(* Properties of the whole run *)

AcquisitionStages == {"start", "load_markets", "filter", "fetch"}

ScreeningStages == {"submit", "collect", "unwind"}

(* a step taken while the screening is under way acquires nothing *)
ScreeningAcquiresNothing ==
    (pc \in ScreeningStages \/ \E k \in Jobs : job[k] \in {"queued", "running"}) =>
        /\ markets' = markets
        /\ filtered' = filtered
        /\ ohlcv_data' = ohlcv_data
        /\ fetched' = fetched
        /\ (pc' \notin AcquisitionStages)

(* C16: market loading, liquidity filtering, price fetching and alignment are
   complete before the first pairwise job is submitted, and nothing is fetched
   while a screening job exists. *)
C16_AcquisitionBeforeScreening ==
    /\ []((pairs # << >> \/ pc \in ScreeningStages) =>
            /\ pc \notin AcquisitionStages
            /\ fetched = Len(filtered)
            /\ \A i \in 1..Len(closes.columns) :
                  \E j \in 1..Len(ohlcv_data) : ohlcv_data[j] = closes.columns[i])
    /\ [][ScreeningAcquiresNothing]_vars

C16_Witness ==
    /\ pc = "collect"
    /\ \E k \in Jobs : job[k] = "running"
    /\ Len(markets) = 3
    /\ Len(filtered) = 2
    /\ fetched = 2
    /\ Len(closes.columns) = 2

(* C20 as stated: no field of Config is assigned after construction. *)
C20_ConfigNeverAssigned == [][config' = config]_vars

(* a step leaves the Config as it is, but for the two filter flags that the
   step from the filter prompt sets *)
ConfigAssignedOnlyAtPrompt ==
    /\ pc # "start" => config' = config
    /\ [config' EXCEPT !.enable_volume_filter = FALSE,
                       !.enable_open_interest_filter = FALSE]
       = [config EXCEPT !.enable_volume_filter = FALSE,
                        !.enable_open_interest_filter = FALSE]

(* C20 as amended: after Config() main assigns only enable_volume_filter and
   enable_open_interest_filter, once, from the filter prompt and before any
   data is acquired; from then on no field of Config is assigned. *)
C20_ConfigAssignedOnlyAtPrompt == [][ConfigAssignedOnlyAtPrompt]_vars

C20_Witness ==
    /\ pc = "lookup"
    /\ config.enable_volume_filter
    /\ ~config.enable_open_interest_filter
    /\ config.coint_threshold = default_coint_threshold

====
